---------------------------- MODULE Spec2Model ----------------------------
(***************************************************************************)
(* CommercePulse data pipeline: the event store (events_raw), the two      *)
(* loaders that upsert into it (bootstrap_loader.py, live_event_loader.py),*)
(* the normalizers and the daily aggregator (transformer.py) and the       *)
(* quality report (quality_report.py).                                     *)
(*                                                                         *)
(* Python values are tagged records: None, numbers, strings.  A string is  *)
(* a sequence of one-character strings so that str.lower(), float() and    *)
(* pd.to_datetime() are computed character by character.  A dict (an event *)
(* document, a payload, a table row) is a function from field names to     *)
(* values; a missing key is a name outside its DOMAIN.                     *)
(***************************************************************************)
EXTENDS Integers, Sequences, FiniteSets, TLC

VARIABLES
    events_raw,     \* the Mongo collection, per fetch category, in natural order
    op,             \* the operation that ran last ("none" at the start)
    raw,            \* its locals raw_orders / raw_payments / raw_refunds
    orders_df,      \* its local orders_df (NotRun when it has none or did not get there)
    payments_df,    \* its local payments_df
    refunds_df,     \* its local refunds_df
    daily_df,       \* its local daily_df
    report,         \* the report dict of run_quality_report
    err,            \* the exception that ended it: [exc, at], exc = "none" when it returned
    saved,          \* the fact tables it wrote to warehouse/facts (NotRun when it wrote none)
    bq_jobs         \* the load jobs run_pipeline issued, in order: [table, df, state]

vars == <<events_raw, op, raw, orders_df, payments_df, refunds_df, daily_df, report, err,
          saved, bq_jobs>>

-----------------------------------------------------------------------------
(* Bounds of the model *)

\* events of one fetch category the store may hold
MaxEvents == 2

-----------------------------------------------------------------------------
(* Python values *)

None == [t |-> "none"]
N(i) == [t |-> "num", n |-> i]
S(s) == [t |-> "str", s |-> s]
IsNone(v) == v.t = "none"
IsNum(v) == v.t = "num"
IsStr(v) == v.t = "str"

\* bool(v): None, 0 and "" are falsy
Truthy(v) ==
    CASE v.t = "none" -> FALSE
      [] v.t = "num" -> v.n # 0
      [] v.t = "str" -> v.s # <<>>
      [] OTHER -> TRUE

\* d.get(f): None for a missing key
Get(d, f) == IF f \in DOMAIN d THEN d[f] ELSE None

\* d.get(f, default)
GetDefault(d, f, default) == IF f \in DOMAIN d THEN d[f] ELSE default

\* d.get(f1) or d.get(f2) or ... : the first truthy value, else the last one
RECURSIVE OrChain(_, _)
OrChain(d, fields) ==
    IF Len(fields) = 1 THEN Get(d, fields[1])
    ELSE IF Truthy(Get(d, fields[1])) THEN Get(d, fields[1])
    ELSE OrChain(d, Tail(fields))

-----------------------------------------------------------------------------
(* Characters and strings *)

UpperLetters == <<"A","B","C","D","E","F","G","H","I","J","K","L","M",
                  "N","O","P","Q","R","S","T","U","V","W","X","Y","Z">>
LowerLetters == <<"a","b","c","d","e","f","g","h","i","j","k","l","m",
                  "n","o","p","q","r","s","t","u","v","w","x","y","z">>
Digits == <<"0","1","2","3","4","5","6","7","8","9">>

\* the characters in ASCII order, for string comparison
Ascii == <<"-">> \o Digits \o <<":">> \o UpperLetters \o <<"_">> \o LowerLetters

Ord(c) == CHOOSE i \in 1..Len(Ascii) : Ascii[i] = c

IsUpper(c) == \E i \in 1..Len(UpperLetters) : UpperLetters[i] = c
IsDigit(c) == \E i \in 1..Len(Digits) : Digits[i] = c
DigitVal(c) == (CHOOSE i \in 1..Len(Digits) : Digits[i] = c) - 1

LowerChar(c) ==
    IF IsUpper(c)
    THEN LowerLetters[CHOOSE i \in 1..Len(UpperLetters) : UpperLetters[i] = c]
    ELSE c

\* str.lower()
Lower(s) == [i \in 1..Len(s) |-> LowerChar(s[i])]

HasUpper(s) == \E i \in 1..Len(s) : IsUpper(s[i])

\* s1 < s2, as Python compares strings
RECURSIVE StrLess(_, _)
StrLess(s1, s2) ==
    IF s2 = <<>> THEN FALSE
    ELSE IF s1 = <<>> THEN TRUE
    ELSE IF s1[1] = s2[1] THEN StrLess(Tail(s1), Tail(s2))
    ELSE Ord(s1[1]) < Ord(s2[1])

RECURSIVE DigitsValue(_)
DigitsValue(s) ==
    IF s = <<>> THEN 0 ELSE 10 * DigitsValue(SubSeq(s, 1, Len(s) - 1)) + DigitVal(s[Len(s)])

AllDigits(s) == s # <<>> /\ \A i \in 1..Len(s) : IsDigit(s[i])

RECURSIVE NatStr(_)
NatStr(n) == IF n < 10 THEN <<Digits[n + 1]>> ELSE NatStr(n \div 10) \o <<Digits[(n % 10) + 1]>>

\* str(v)
PyStr(v) ==
    CASE v.t = "none" -> <<"N","o","n","e">>
      [] v.t = "num" -> IF v.n < 0 THEN <<"-">> \o NatStr(-v.n) ELSE NatStr(v.n)
      [] v.t = "str" -> v.s

\* float(v): [exc, v].  A string must be an optionally signed run of digits.
Float(v) ==
    CASE v.t = "none" -> [exc |-> "TypeError", v |-> 0]
      [] v.t = "num" -> [exc |-> "none", v |-> v.n]
      [] v.t = "str" ->
            IF AllDigits(v.s) THEN [exc |-> "none", v |-> DigitsValue(v.s)]
            ELSE IF v.s # <<>> /\ v.s[1] = "-" /\ AllDigits(Tail(v.s))
                 THEN [exc |-> "none", v |-> 0 - DigitsValue(Tail(v.s))]
            ELSE [exc |-> "ValueError", v |-> 0]

-----------------------------------------------------------------------------
(* Timestamps.  A timestamp is the number yyyymmddhh, which orders as time *)
(* does; NaT is pandas' null timestamp.                                    *)

NaT == [t |-> "nat"]
Timestamp(i) == [t |-> "ts", v |-> i]
IsNull(v) == v.t \in {"none", "nat"}

IsLeap(y) == (y % 4 = 0 /\ y % 100 # 0) \/ y % 400 = 0
DaysInMonth(y, m) ==
    IF m = 2 THEN (IF IsLeap(y) THEN 29 ELSE 28)
    ELSE IF m \in {4, 6, 9, 11} THEN 30 ELSE 31

\* "YYYY-MM-DD" or "YYYY-MM-DDTHH"
ParseDate(s) ==
    IF /\ Len(s) \in {10, 13}
       /\ s[5] = "-" /\ s[8] = "-"
       /\ AllDigits(SubSeq(s, 1, 4)) /\ AllDigits(SubSeq(s, 6, 7)) /\ AllDigits(SubSeq(s, 9, 10))
       /\ (Len(s) = 13 => s[11] = "T" /\ AllDigits(SubSeq(s, 12, 13)))
    THEN LET y == DigitsValue(SubSeq(s, 1, 4))
             m == DigitsValue(SubSeq(s, 6, 7))
             d == DigitsValue(SubSeq(s, 9, 10))
             h == IF Len(s) = 13 THEN DigitsValue(SubSeq(s, 12, 13)) ELSE 0
         IN IF m \in 1..12 /\ d \in 1..DaysInMonth(y, m) /\ h \in 0..23
            THEN Timestamp(((y * 100 + m) * 100 + d) * 100 + h)
            ELSE NaT
    ELSE NaT

\* to_datetime falling back to the fixed epoch for a missing date
to_datetime_epoch_default(v) ==
    CASE v.t = "none" -> Timestamp(2023010100)
      [] v.t = "str" -> ParseDate(v.s)
      [] OTHER -> NaT

\* pd.to_datetime(v, utc=True, errors="coerce"): None stays None, an
\* unparsable string is NaT.  (Numbers are not among the modelled dates.)
to_datetime(v) ==
    CASE v.t = "none" -> None
      [] v.t = "str" -> ParseDate(v.s)
      [] OTHER -> NaT

\* Timestamp.date()
DateOf(ts) == IF ts.t = "ts" THEN [t |-> "date", v |-> ts.v \div 100] ELSE NaT

-----------------------------------------------------------------------------
(* DataFrames: a set of column names and a sequence of rows.  pd.DataFrame() *)
(* is the frame with no columns and no rows.                                 *)

EmptyDataFrame == [columns |-> {}, rows |-> <<>>]
NotRun == [notrun |-> TRUE]
NoError == [exc |-> "none", at |-> "none"]

\* pd.DataFrame(rows): a column holding only None keeps dtype object; as soon
\* as it holds a Timestamp or NaT it is a datetime column and None reads NaT.
IsObjectColumn(rows, col) == \A i \in 1..Len(rows) : rows[i][col].t = "none"

DataFrame(rows, datecol) ==
    [columns |-> IF rows = <<>> THEN {} ELSE DOMAIN rows[1],
     rows |-> IF IsObjectColumn(rows, datecol) THEN rows
              ELSE [i \in 1..Len(rows) |->
                      IF rows[i][datecol].t = "none"
                      THEN [rows[i] EXCEPT ![datecol] = NaT] ELSE rows[i]]]

\* the rows at the indices of idx, in that order
Take(rows, idx) == [i \in 1..Len(idx) |-> rows[idx[i]]]

\* the indices i with flags[i], ascending
RECURSIVE IndicesWhere(_, _)
IndicesWhere(flags, i) ==
    IF i > Len(flags) THEN <<>>
    ELSE (IF flags[i] THEN <<i>> ELSE <<>>) \o IndicesWhere(flags, i + 1)

IndexPermutations(n) == {p \in [1..n -> 1..n] : \A i, j \in 1..n : i # j => p[i] # p[j]}

\* sort_values with the null rows after the others (na_position="last")
sort_values_na_last(rows, col) ==
    LET n == Len(rows)
        nulls == IndicesWhere([i \in 1..n |-> IsNull(rows[i][col])], 1)
        rest == IndicesWhere([i \in 1..n |-> ~IsNull(rows[i][col])], 1)
        m == Len(rest)
    IN { Take(rows, [i \in 1..m |-> rest[p[i]]] \o nulls) :
           p \in { q \in IndexPermutations(m) :
                     \A i \in 1..m : i < m =>
                        rows[rest[q[i]]][col].v <= rows[rest[q[i + 1]]][col].v } }

\* df.sort_values(col, na_position="first"): the null rows first, in their
\* input order; then the others in ascending order.  The default sort kind is
\* quicksort, which is not stable: rows with equal keys come in any order.
sort_values(rows, col) ==
    LET n == Len(rows)
        nulls == IndicesWhere([i \in 1..n |-> IsNull(rows[i][col])], 1)
        rest == IndicesWhere([i \in 1..n |-> ~IsNull(rows[i][col])], 1)
        m == Len(rest)
    IN { Take(rows, nulls \o [i \in 1..m |-> rest[p[i]]]) :
           p \in { q \in IndexPermutations(m) :
                     \A i \in 1..m : i < m =>
                        rows[rest[q[i]]][col].v <= rows[rest[q[i + 1]]][col].v } }

\* df.drop_duplicates(subset=[key], keep="last")
drop_duplicates_last(rows, key) ==
    Take(rows, IndicesWhere([i \in 1..Len(rows) |->
        ~\E j \in (i + 1)..Len(rows) : rows[j][key] = rows[i][key]], 1))

\* drop_duplicates keeping the last row of each key
drop_duplicates_keep_last(rows, key) ==
    Take(rows, IndicesWhere([i \in 1..Len(rows) |->
        ~\E j \in (i + 1)..Len(rows) : rows[j][key] = rows[i][key]], 1))

\* df.drop_duplicates(subset=[key]): keep="first" is the default
drop_duplicates_first(rows, key) ==
    Take(rows, IndicesWhere([i \in 1..Len(rows) |->
        ~\E j \in 1..(i - 1) : rows[j][key] = rows[i][key]], 1))

\* the loop "for event in events: rows.append(...)" over the row results
\* built[i] = [exc, row]: the rows, or the first exception a row raises
BuildRows(built) ==
    LET bad == {i \in 1..Len(built) : built[i].exc # "none"}
    IN IF bad # {}
       THEN [exc |-> built[CHOOSE i \in bad : \A j \in bad : i <= j].exc, rows |-> <<>>]
       ELSE [exc |-> "none", rows |-> [i \in 1..Len(built) |-> built[i].row]]

\* event.get("payload", {})
PayloadOf(event) == GetDefault(event, "payload", <<>>)

-----------------------------------------------------------------------------
(* transformer.py: the normalizers *)

ORDER_TYPES == {"historical_order", "order_created", "order_updated"}
PAYMENT_TYPES == {"historical_payment", "payment_attempt", "payment_confirmed"}
REFUND_TYPES == {"historical_refund", "refund_created", "refund_processed"}

\* the keys of the row dicts: the columns of a non-empty table
ORDER_COLUMNS ==
    {"order_id", "customer_id", "order_amount", "order_status", "created_at",
     "event_id", "vendor", "event_type"}
PAYMENT_COLUMNS ==
    {"payment_id", "order_id", "payment_amount", "payment_status", "payment_method",
     "payment_date", "event_id", "vendor"}
REFUND_COLUMNS ==
    {"refund_id", "order_id", "payment_id", "refund_amount", "refund_reason",
     "refund_type", "refund_date", "event_id", "vendor"}

order_row(event) ==
    LET payload == PayloadOf(event)
        amount == Float(GetDefault(payload, "totalAmount", N(0)))
    IN [exc |-> amount.exc,
        row |-> [order_id |-> Get(payload, "order_id"),
                 customer_id |-> Get(payload, "customerId"),
                 order_amount |-> amount.v,
                 order_status |-> Get(payload, "state"),
                 created_at |-> to_datetime(Get(payload, "created_at")),
                 event_id |-> Get(event, "event_id"),
                 vendor |-> Get(event, "vendor"),
                 event_type |-> Get(event, "event_type")]]

\* the possible results [exc, df] of normalize_orders(events)
normalize_orders(events) ==
    IF events = <<>> THEN {[exc |-> "none", df |-> EmptyDataFrame]}
    ELSE LET built == BuildRows([i \in 1..Len(events) |-> order_row(events[i])])
         IN IF built.exc # "none" THEN {[exc |-> built.exc, df |-> NotRun]}
            ELSE LET df == DataFrame(built.rows, "created_at")
                 IN { [exc |-> "none",
                       df |-> [df EXCEPT !.rows = drop_duplicates_last(sorted, "order_id")]] :
                        sorted \in sort_values(df.rows, "created_at") }

FAILED_WORDS == {<<"f","a","i","l","e","d">>, <<"f","a","i","l">>, <<"e","r","r","o","r">>}
SUCCESS_WORDS ==
    {<<"s","u","c","c","e","s","s">>, <<"s","u","c","c","e","s","s","f","u","l">>,
     <<"c","o","m","p","l","e","t","e","d">>, <<"p","a","i","d">>}

\* the vocabulary applied to the status as it came, without status.lower()
canonical_status_as_is(status) ==
    IF ~Truthy(status) THEN [exc |-> "none", v |-> status]
    ELSE IF ~IsStr(status) THEN [exc |-> "AttributeError", v |-> status]
    ELSE [exc |-> "none",
          v |-> IF status.s \in FAILED_WORDS THEN S(<<"f","a","i","l","e","d">>)
                ELSE IF status.s \in SUCCESS_WORDS THEN S(<<"s","u","c","c","e","s","s">>)
                ELSE status]

\* lines 64-71: status.lower() and the fixed vocabulary
canonical_status(status) ==
    IF ~Truthy(status) THEN [exc |-> "none", v |-> status]
    ELSE IF ~IsStr(status) THEN [exc |-> "AttributeError", v |-> status]
    ELSE LET low == Lower(status.s)
         IN [exc |-> "none",
             v |-> IF low \in FAILED_WORDS THEN S(<<"f","a","i","l","e","d">>)
                   ELSE IF low \in SUCCESS_WORDS THEN S(<<"s","u","c","c","e","s","s">>)
                   ELSE S(low)]

\* float(amount) if amount else 0.0
amount_or_zero(amount) ==
    IF Truthy(amount) THEN Float(amount) ELSE [exc |-> "none", v |-> 0]

payment_amount_of(payload) ==
    OrChain(payload, <<"amountPaid", "amount", "payment_amount", "totalAmount">>)

payment_row(event) ==
    LET payload == PayloadOf(event)
        status == canonical_status(OrChain(payload, <<"payment_status", "status", "state">>))
        amount == amount_or_zero(payment_amount_of(payload))
    IN [exc |-> IF status.exc # "none" THEN status.exc ELSE amount.exc,
        row |-> [payment_id |-> OrChain(payload, <<"transaction_id", "payment_id", "id", "paymentId">>),
                 order_id |-> OrChain(payload, <<"order_id", "orderId">>),
                 payment_amount |-> amount.v,
                 payment_status |-> status.v,
                 payment_method |-> OrChain(payload, <<"channel", "method", "payment_method">>),
                 payment_date |-> to_datetime(OrChain(payload, <<"paid_at", "payment_date", "created_at">>)),
                 event_id |-> Get(event, "event_id"),
                 vendor |-> Get(event, "vendor")]]

normalize_payments(events) ==
    IF events = <<>> THEN [exc |-> "none", df |-> EmptyDataFrame]
    ELSE LET built == BuildRows([i \in 1..Len(events) |-> payment_row(events[i])])
         IN IF built.exc # "none" THEN [exc |-> built.exc, df |-> NotRun]
            ELSE LET df == DataFrame(built.rows, "payment_date")
                 IN [exc |-> "none",
                     df |-> [df EXCEPT !.rows = drop_duplicates_first(df.rows, "payment_id")]]

refund_amount_of(payload) ==
    OrChain(payload, <<"amountRefunded", "amount", "refund_amount", "totalAmount">>)

refund_row(event) ==
    LET payload == PayloadOf(event)
        amount == amount_or_zero(refund_amount_of(payload))
    IN [exc |-> amount.exc,
        row |-> [refund_id |-> OrChain(payload, <<"refund_id", "id", "transaction_id">>),
                 order_id |-> OrChain(payload, <<"order_id", "orderId">>),
                 payment_id |-> OrChain(payload, <<"payment_id", "paymentId", "transaction_id">>),
                 refund_amount |-> amount.v,
                 refund_reason |-> OrChain(payload, <<"reason", "refund_reason">>),
                 refund_type |-> OrChain(payload, <<"type", "refund_type">>),
                 refund_date |-> to_datetime(OrChain(payload, <<"refunded_at", "refund_date", "created_at">>)),
                 event_id |-> Get(event, "event_id"),
                 vendor |-> Get(event, "vendor")]]

normalize_refunds(events) ==
    IF events = <<>> THEN [exc |-> "none", df |-> EmptyDataFrame]
    ELSE LET built == BuildRows([i \in 1..Len(events) |-> refund_row(events[i])])
         IN IF built.exc # "none" THEN [exc |-> built.exc, df |-> NotRun]
            ELSE LET df == DataFrame(built.rows, "refund_date")
                 IN [exc |-> "none",
                     df |-> [df EXCEPT !.rows = drop_duplicates_first(df.rows, "refund_id")]]

-----------------------------------------------------------------------------
(* transformer.py: the daily aggregator *)

RECURSIVE SumCol(_, _)
SumCol(rows, col) ==
    IF rows = <<>> THEN 0 ELSE rows[1][col] + SumCol(Tail(rows), col)

\* df[flags]: boolean-mask selection
Mask(rows, flags) == Take(rows, IndicesWhere(flags, 1))

\* series.isin(values)
IsIn(rows, col, values) == [i \in 1..Len(rows) |-> rows[i][col] \in values]

\* round(n / d, 4) as a count of ten-thousandths (ties to even), d > 0
Round4(n, d) ==
    LET q == (10000 * n) \div d
        r == (10000 * n) % d
    IN IF 2 * r > d \/ (2 * r = d /\ q % 2 = 1) THEN q + 1 ELSE q

Ratio(n, d) == [t |-> "ratio", v |-> Round4(n, d)]

SUCCESS == S(<<"s","u","c","c","e","s","s">>)

\* groupby(["order_date", "vendor"]) drops the rows with a null key
\* (dropna=True is the default) and yields the groups in key order
GroupKeys(rows) ==
    { <<rows[i].order_date, rows[i].vendor>> :
        i \in { j \in 1..Len(rows) : ~IsNull(rows[j].order_date) /\ ~IsNull(rows[j].vendor) } }

KeyLess(a, b) ==
    \/ a[1].v < b[1].v
    \/ a[1].v = b[1].v /\ StrLess(PyStr(a[2]), PyStr(b[2]))

RECURSIVE SortedKeys(_)
SortedKeys(K) ==
    IF K = {} THEN <<>>
    ELSE LET m == CHOOSE k \in K : \A o \in K \ {k} : KeyLess(k, o)
         IN <<m>> \o SortedKeys(K \ {m})

\* the loop body with gross_revenue summed over the successful payments only
daily_row_success_only(key, orders, payments, refunds) ==
    LET group == Mask(orders, [i \in 1..Len(orders) |->
                        <<orders[i].order_date, orders[i].vendor>> = key])
        order_ids == {group[i].order_id : i \in 1..Len(group)}
        payments_subset == Mask(payments, [i \in 1..Len(payments) |->
                        payments[i].order_id \in order_ids /\ payments[i].payment_status = SUCCESS])
        gross_revenue == SumCol(payments_subset, "payment_amount")
        refunds_subset == Mask(refunds, IsIn(refunds, "order_id", order_ids))
        total_refunds == SumCol(refunds_subset, "refund_amount")
    IN [order_date |-> key[1],
        vendor |-> key[2],
        gross_revenue |-> gross_revenue,
        total_refunds |-> total_refunds,
        net_revenue |-> gross_revenue - total_refunds,
        order_count |-> Len(group),
        paid_count |-> Len(payments_subset),
        payment_success_rate |-> IF Len(group) > 0 THEN Ratio(Len(payments_subset), Len(group)) ELSE None,
        refund_rate |-> IF gross_revenue > 0 THEN Ratio(total_refunds, gross_revenue) ELSE None]

\* the body of the loop over the groups, lines 138-163
daily_row(key, orders, payments, refunds) ==
    LET group == Mask(orders, [i \in 1..Len(orders) |->
                        <<orders[i].order_date, orders[i].vendor>> = key])
        order_ids == {group[i].order_id : i \in 1..Len(group)}
        payments_subset == Mask(payments, IsIn(payments, "order_id", order_ids))
        gross_revenue == SumCol(payments_subset, "payment_amount")
        paid_count == Len(Mask(payments_subset,
                        [i \in 1..Len(payments_subset) |-> payments_subset[i].payment_status = SUCCESS]))
        refunds_subset == Mask(refunds, IsIn(refunds, "order_id", order_ids))
        total_refunds == SumCol(refunds_subset, "refund_amount")
        order_count == Len(group)
    IN [order_date |-> key[1],
        vendor |-> key[2],
        gross_revenue |-> gross_revenue,
        total_refunds |-> total_refunds,
        net_revenue |-> gross_revenue - total_refunds,
        order_count |-> order_count,
        paid_count |-> paid_count,
        payment_success_rate |-> IF order_count > 0 THEN Ratio(paid_count, order_count) ELSE None,
        refund_rate |-> IF gross_revenue > 0 THEN Ratio(total_refunds, gross_revenue) ELSE None]

\* build_fact_order_daily: [exc, df, orders], orders being the orders_df
\* argument as the call leaves it (line 135 adds a column to it in place)
build_fact_order_daily(orders, payments, refunds) ==
    IF orders.rows = <<>> THEN [exc |-> "none", df |-> EmptyDataFrame, orders |-> orders]
    ELSE IF IsObjectColumn(orders.rows, "created_at")
    THEN [exc |-> "AttributeError", df |-> NotRun, orders |-> orders]
    ELSE LET dated == [columns |-> orders.columns \cup {"order_date"},
                       rows |-> [i \in 1..Len(orders.rows) |->
                                   ("order_date" :> DateOf(orders.rows[i].created_at))
                                      @@ orders.rows[i]]]
             keys == SortedKeys(GroupKeys(dated.rows))
         IN IF keys # <<>> /\ ( "order_id" \notin payments.columns
                                \/ "order_id" \notin refunds.columns )
            THEN [exc |-> "KeyError", df |-> NotRun, orders |-> dated]
            ELSE LET results == [k \in 1..Len(keys) |->
                                   daily_row(keys[k], dated.rows, payments.rows, refunds.rows)]
                 IN [exc |-> "none",
                     df |-> [columns |-> IF results = <<>> THEN {} ELSE DOMAIN results[1],
                             rows |-> results],
                     orders |-> dated]

\* fetch_events(event_types)
fetch_events(store, event_types) ==
    LET all == store.orders \o store.payments \o store.refunds \o store.other
    IN Take(all, IndicesWhere([i \in 1..Len(all) |->
                 "event_type" \in DOMAIN all[i] /\ all[i].event_type.t = "str"
                 /\ all[i].event_type.s \in {<<ty>> : ty \in event_types}], 1))

\* save_dataframes as bound when run_transformation calls it: the second
\* definition of the name, which writes the four tables to warehouse/facts
save_dataframes(o, p, r, d) ==
    [fact_orders |-> o, fact_payments |-> p, fact_refunds |-> r, fact_order_daily |-> d]

Outcome(raw_, o, p, r, d, rep, exc, at) ==
    [raw |-> raw_, orders_df |-> o, payments_df |-> p, refunds_df |-> r,
     daily_df |-> d, report |-> rep, err |-> [exc |-> exc, at |-> at], saved |-> NotRun]

\* run_transformation: every outcome the call can have on this store
run_transformation(store) ==
    LET raw_ == [orders |-> fetch_events(store, ORDER_TYPES),
                 payments |-> fetch_events(store, PAYMENT_TYPES),
                 refunds |-> fetch_events(store, REFUND_TYPES)]
        one(no) ==
            LET np == normalize_payments(raw_.payments)
                nr == normalize_refunds(raw_.refunds)
                agg == build_fact_order_daily(no.df, np.df, nr.df)
            IN IF no.exc # "none"
               THEN Outcome(raw_, NotRun, NotRun, NotRun, NotRun, NotRun, no.exc, "normalize_orders")
               ELSE IF np.exc # "none"
               THEN Outcome(raw_, no.df, NotRun, NotRun, NotRun, NotRun, np.exc, "normalize_payments")
               ELSE IF nr.exc # "none"
               THEN Outcome(raw_, no.df, np.df, NotRun, NotRun, NotRun, nr.exc, "normalize_refunds")
               ELSE IF agg.exc # "none"
               THEN Outcome(raw_, agg.orders, np.df, nr.df, NotRun, NotRun, agg.exc, "build_fact_order_daily")
               ELSE IF "gross_revenue" \notin agg.df.columns
               THEN Outcome(raw_, agg.orders, np.df, nr.df, agg.df, NotRun, "KeyError", "run_transformation")
               ELSE [Outcome(raw_, agg.orders, np.df, nr.df, agg.df, NotRun, "none", "none")
                       EXCEPT !.saved = save_dataframes(agg.orders, np.df, nr.df, agg.df)]
    IN { one(no) : no \in normalize_orders(raw_.orders) }

-----------------------------------------------------------------------------
(* quality_report.py *)

\* days since 1970-01-01 of a calendar date
DaysFromCivil(y, m, d) ==
    LET yy == IF m <= 2 THEN y - 1 ELSE y
        era == yy \div 400
        yoe == yy - era * 400
        mp == IF m > 2 THEN m - 3 ELSE m + 9
        doy == (153 * mp + 2) \div 5 + d - 1
        doe == yoe * 365 + yoe \div 4 - yoe \div 100 + doy
    IN era * 146097 + doe - 719468

\* hours since the epoch of a timestamp yyyymmddhh
HoursOf(ts) ==
    LET h == ts.v % 100
        d == (ts.v \div 100) % 100
        m == (ts.v \div 10000) % 100
        y == ts.v \div 1000000
    IN DaysFromCivil(y, m, d) * 24 + h

\* round(n / d, 2) as a count of hundredths (ties to even), d > 0
Round2(n, d) ==
    LET q == (100 * n) \div d
        r == (100 * n) % d
    IN IF 2 * r > d \/ (2 * r = d /\ q % 2 = 1) THEN q + 1 ELSE q

CountWhere(flags) == Len(IndicesWhere(flags, 1))

\* orders_df[...].merge(payments_df[...], on="order_id", how="inner")
RECURSIVE MergeOn(_, _)
MergeOn(orders, payments) ==
    IF orders = <<>> THEN <<>>
    ELSE LET o == orders[1]
             matches == Mask(payments, [i \in 1..Len(payments) |-> payments[i].order_id = o.order_id])
         IN [i \in 1..Len(matches) |->
               [order_id |-> o.order_id, created_at |-> o.created_at,
                payment_date |-> matches[i].payment_date]]
            \o MergeOn(Tail(orders), payments)

\* lines 83-94: the late-arrival statistics of the merged frame
RECURSIVE SumSeq(_)
SumSeq(s) == IF s = <<>> THEN 0 ELSE s[1] + SumSeq(Tail(s))

late_arrivals(merged) ==
    LET known == Mask(merged, [i \in 1..Len(merged) |->
                        merged[i].created_at.t = "ts" /\ merged[i].payment_date.t = "ts"])
        hours == [i \in 1..Len(known) |-> HoursOf(known[i].payment_date) - HoursOf(known[i].created_at)]
    IN IF merged = <<>>
       THEN [payments_over_7_days |-> 0, payments_over_30_days |-> 0, avg_days_to_payment |-> N(0)]
       ELSE [payments_over_7_days |-> CountWhere([i \in 1..Len(hours) |-> hours[i] > 7 * 24]),
             payments_over_30_days |-> CountWhere([i \in 1..Len(hours) |-> hours[i] > 30 * 24]),
             avg_days_to_payment |->
                IF hours = <<>> THEN [t |-> "nan"]
                ELSE [t |-> "hundredths", v |-> Round2(SumSeq(hours), 24 * Len(hours))]]

\* the rows whose value of col is among values, counted as orphans
orphan_count_of_matched(rows, col, values) ==
    CountWhere([i \in 1..Len(rows) |-> rows[i][col] \in values])

\* int((~df[col].isin(values)).sum()), lines 61-66
orphan_count(rows, col, values) ==
    CountWhere([i \in 1..Len(rows) |-> rows[i][col] \notin values])

\* the report dict, lines 34-118, for three non-empty tables
quality_metrics(orders, payments, refunds) ==
    LET order_ids == {orders[i].order_id : i \in 1..Len(orders)}
        payment_ids == {payments[i].payment_id : i \in 1..Len(payments)}
        successful_payments == Mask(payments, [i \in 1..Len(payments) |-> payments[i].payment_status = SUCCESS])
        gross_revenue == SumCol(successful_payments, "payment_amount")
        total_refunded == SumCol(refunds, "refund_amount")
        total_payments == Len(payments)
    IN [total_orders |-> Len(orders),
        total_payments |-> Len(payments),
        total_refunds |-> Len(refunds),
        orders_missing_customer_id |-> CountWhere([i \in 1..Len(orders) |-> IsNull(orders[i].customer_id)]),
        orders_missing_amount |-> CountWhere([i \in 1..Len(orders) |-> orders[i].order_amount = 0]),
        payments_missing_order_id |-> CountWhere([i \in 1..Len(payments) |-> IsNull(payments[i].order_id)]),
        refunds_missing_payment_id |-> CountWhere([i \in 1..Len(refunds) |-> IsNull(refunds[i].payment_id)]),
        orphan_payments |-> orphan_count(payments, "order_id", order_ids),
        orphan_refunds |-> orphan_count(refunds, "payment_id", payment_ids),
        gross_revenue |-> gross_revenue,
        total_refunded |-> total_refunded,
        net_revenue |-> gross_revenue - total_refunded,
        payment_success_rate |->
            IF total_payments > 0 THEN Ratio(Len(successful_payments), total_payments) ELSE N(0),
        refund_rate |->
            IF gross_revenue > 0 THEN Ratio(total_refunded, gross_revenue) ELSE N(0)]

\* run_quality_report: every outcome the call can have on this store
run_quality_report(store) ==
    LET raw_ == [orders |-> fetch_events(store, ORDER_TYPES),
                 payments |-> fetch_events(store, PAYMENT_TYPES),
                 refunds |-> fetch_events(store, REFUND_TYPES)]
        one(no) ==
            LET np == normalize_payments(raw_.payments)
                nr == normalize_refunds(raw_.refunds)
                merged == MergeOn(no.df.rows, np.df.rows)
            IN IF no.exc # "none"
               THEN Outcome(raw_, NotRun, NotRun, NotRun, NotRun, NotRun, no.exc, "normalize_orders")
               ELSE IF np.exc # "none"
               THEN Outcome(raw_, no.df, NotRun, NotRun, NotRun, NotRun, np.exc, "normalize_payments")
               ELSE IF nr.exc # "none"
               THEN Outcome(raw_, no.df, np.df, NotRun, NotRun, NotRun, nr.exc, "normalize_refunds")
               ELSE IF \/ "customer_id" \notin no.df.columns
                       \/ "order_id" \notin np.df.columns
                       \/ "payment_id" \notin nr.df.columns
               THEN Outcome(raw_, no.df, np.df, nr.df, NotRun, NotRun, "KeyError", "completeness")
               ELSE IF /\ merged # <<>>
                       /\ \/ IsObjectColumn(no.df.rows, "created_at")
                          \/ IsObjectColumn(np.df.rows, "payment_date")
               THEN Outcome(raw_, no.df, np.df, nr.df, NotRun, NotRun, "TypeError", "late_arrivals")
               ELSE Outcome(raw_, no.df, np.df, nr.df, NotRun,
                            late_arrivals(merged) @@ quality_metrics(no.df.rows, np.df.rows, nr.df.rows),
                            "none", "none")
    IN { one(no) : no \in normalize_orders(raw_.orders) }

-----------------------------------------------------------------------------
(* bq_loader.py.  The warehouse is the environment: which load jobs it      *)
(* rejects is an input of run_pipeline.  create_tables issues CREATE TABLE  *)
(* IF NOT EXISTS and leaves no state the model reads.                       *)

BQ_TABLES == <<"fact_orders", "fact_payments", "fact_refunds", "fact_order_daily">>

BQ_ORDER_COLUMNS ==
    {"order_id", "customer_id", "vendor", "order_amount", "order_status", "created_at", "event_id"}
BQ_PAYMENT_COLUMNS ==
    {"payment_id", "order_id", "vendor", "payment_amount", "payment_status", "payment_method",
     "payment_date", "event_id"}
BQ_REFUND_COLUMNS ==
    {"refund_id", "order_id", "payment_id", "vendor", "refund_amount", "refund_reason",
     "refund_type", "refund_date", "event_id"}

\* df[[columns]].copy()
SelectColumns(df, columns) ==
    [columns |-> columns,
     rows |-> [i \in 1..Len(df.rows) |-> [c \in columns |-> df.rows[i][c]]]]

\* load_dataframe_to_bq(df, table_name): [exc, jobs]; an empty frame issues
\* no job, and job.result() raises when the warehouse rejects the load
load_dataframe_to_bq(df, table_name, rejected) ==
    IF df.rows = <<>> \/ df.columns = {}
    THEN [exc |-> "none", jobs |-> <<>>]
    ELSE IF table_name \in rejected
    THEN [exc |-> "BadRequest", jobs |-> <<[table |-> table_name, df |-> df, state |-> "FAILED"]>>]
    ELSE [exc |-> "none", jobs |-> <<[table |-> table_name, df |-> df, state |-> "DONE"]>>]

\* lines 139-142: the four loads one after the other; an exception of one
\* ends the sequence
RECURSIVE load_tables(_, _, _)
load_tables(frames, names, rejected) ==
    IF frames = <<>> THEN [exc |-> "none", jobs |-> <<>>]
    ELSE LET first == load_dataframe_to_bq(frames[1], names[1], rejected)
             others == load_tables(Tail(frames), Tail(names), rejected)
         IN IF first.exc # "none" THEN first
            ELSE [exc |-> others.exc, jobs |-> first.jobs \o others.jobs]

\* run_pipeline: every outcome [out, jobs], out being what run_transformation
\* left and the exception that ended the run
run_pipeline(store, rejected) ==
    LET one(out) ==
            IF out.err.exc # "none" THEN [out |-> out, jobs |-> <<>>]
            ELSE IF \/ ~(BQ_ORDER_COLUMNS \subseteq out.orders_df.columns)
                    \/ ~(BQ_PAYMENT_COLUMNS \subseteq out.payments_df.columns)
                    \/ ~(BQ_REFUND_COLUMNS \subseteq out.refunds_df.columns)
            THEN [out |-> [out EXCEPT !.err = [exc |-> "KeyError", at |-> "run_pipeline"]],
                  jobs |-> <<>>]
            ELSE LET loads == load_tables(
                                 << SelectColumns(out.orders_df, BQ_ORDER_COLUMNS),
                                    SelectColumns(out.payments_df, BQ_PAYMENT_COLUMNS),
                                    SelectColumns(out.refunds_df, BQ_REFUND_COLUMNS),
                                    out.daily_df >>,
                                 BQ_TABLES, rejected)
                 IN [out |-> [out EXCEPT !.err =
                                 IF loads.exc = "none" THEN NoError
                                 ELSE [exc |-> loads.exc, at |-> "load_dataframe_to_bq"]],
                     jobs |-> loads.jobs]
    IN { one(out) : out \in run_transformation(store) }

-----------------------------------------------------------------------------
(* The event store and the loaders.  events_raw keeps the documents of each  *)
(* fetch category in their natural order; event type and source tags are     *)
(* one-token strings.  A digest is kept as its tagged preimage, so two       *)
(* digests are equal exactly when their inputs are.                          *)

Tag(name) == S(<<name>>)

\* the fetch category an event type belongs to
CategoryOf(event) ==
    LET ty == Get(event, "event_type")
    IN IF ty.t = "str" /\ ty.s \in {<<x>> : x \in ORDER_TYPES} THEN "orders"
       ELSE IF ty.t = "str" /\ ty.s \in {<<x>> : x \in PAYMENT_TYPES} THEN "payments"
       ELSE IF ty.t = "str" /\ ty.s \in {<<x>> : x \in REFUND_TYPES} THEN "refunds"
       ELSE "other"

\* the places <<category, index>> of the documents matching {"event_id": id}
FindById(store, id) ==
    UNION { { <<c, i>> : i \in { j \in 1..Len(store[c]) : store[c][j].event_id = id } } :
              c \in DOMAIN store }

RemoveAt(coll, i) == SubSeq(coll, 1, i - 1) \o SubSeq(coll, i + 1, Len(coll))
InsertAt(coll, k, doc) == SubSeq(coll, 1, k - 1) \o <<doc>> \o SubSeq(coll, k, Len(coll))

\* the update {"$set": event} on a matched document: the fields of event are
\* written over the stored document, whose other fields stay
SetFields(doc, event) == event @@ doc

\* UpdateOne({"event_id": id}, {"$set": event}, upsert=True) applied to the
\* collection: the matched document is updated where it lies, and a document
\* is inserted when none matches.  An update that changes event_type moves
\* the document to another fetch category, where its place among the others
\* is the one its first insertion gave it: any place.
UpdateOne(store, event) ==
    LET found == FindById(store, event.event_id)
    IN IF found = {}
       THEN { [store EXCEPT ![CategoryOf(event)] = Append(@, event)] }
       ELSE LET at == CHOOSE x \in found : TRUE
                doc == SetFields(store[at[1]][at[2]], event)
                c == CategoryOf(doc)
            IN IF c = at[1]
               THEN { [store EXCEPT ![c][at[2]] = doc] }
               ELSE { [store EXCEPT ![at[1]] = RemoveAt(@, at[2]),
                                    ![c] = InsertAt(@, k, doc)] :
                        k \in 1..(Len(store[c]) + 1) }

\* the operations applied one after the other: the stores that can result
RECURSIVE ApplyOps(_, _)
ApplyOps(store, ops_) ==
    IF ops_ = <<>> THEN {store}
    ELSE UNION { ApplyOps(st, Tail(ops_)) : st \in UpdateOne(store, ops_[1]) }

\* collection.bulk_write(ops, ordered=False): the server applies the
\* operations in an order of its choosing
bulk_write(store, ops_) ==
    UNION { ApplyOps(store, [i \in 1..Len(ops_) |-> ops_[p[i]]]) :
              p \in IndexPermutations(Len(ops_)) }

WithinBounds(store) == \A c \in DOMAIN store : Len(store[c]) <= MaxEvents

make_event_id(event_type, natural_key) == S(<<"sha256", event_type, ":">> \o natural_key)

\* the payload keys of the model in sorted order, for json.dumps(sort_keys=True)
SORTED_KEYS ==
    <<"amount", "amountPaid", "amountRefunded", "created_at", "customerId", "date", "id",
      "merchant_id", "orderId", "order_date", "order_id", "paid_at", "paymentId",
      "payment_amount", "payment_date", "payment_id", "payment_status", "refund_amount",
      "refund_date", "refund_id", "refunded_at", "seller_id", "state", "status",
      "timestamp", "totalAmount", "transaction_id", "vendor", "vendor_id">>

JsonValue(v) ==
    CASE v.t = "none" -> <<"null">>
      [] v.t = "num" -> PyStr(v)
      [] v.t = "str" -> <<"\"">> \o v.s \o <<"\"">>

RECURSIVE JsonDumps(_, _)
JsonDumps(record, keys) ==
    IF keys = <<>> THEN <<>>
    ELSE (IF keys[1] \in DOMAIN record
          THEN <<keys[1], ":">> \o JsonValue(record[keys[1]]) \o <<",">>
          ELSE <<>>) \o JsonDumps(record, Tail(keys))

key_map(event_type) ==
    CASE event_type = "historical_order" -> <<"order_id", "id">>
      [] event_type = "historical_payment" -> <<"payment_id", "id", "transaction_id">>
      [] event_type = "historical_shipment" -> <<"shipment_id", "id", "tracking_id">>
      [] event_type = "historical_refund" -> <<"refund_id", "id">>
      [] OTHER -> <<>>

\* the first candidate that is present and truthy, as a string; else other
RECURSIVE FirstTruthyStr(_, _, _)
FirstTruthyStr(record, fields, other) ==
    IF fields = <<>> THEN other
    ELSE IF fields[1] \in DOMAIN record /\ Truthy(record[fields[1]])
    THEN PyStr(record[fields[1]])
    ELSE FirstTruthyStr(record, Tail(fields), other)

extract_natural_key(event_type, record) ==
    FirstTruthyStr(record, key_map(event_type), <<"md5">> \o JsonDumps(record, SORTED_KEYS))

EPOCH == <<"2","0","2","3","-","0","1","-","0","1","T","0","0",":","0","0",":","0","0","Z">>
time_fields == <<"created_at", "order_date", "payment_date", "shipped_at", "refund_date", "timestamp", "date">>

extract_event_time(event_type, record) == FirstTruthyStr(record, time_fields, EPOCH)

UNKNOWN == <<"u","n","k","n","o","w","n">>
vendor_fields == <<"vendor_id", "vendor", "seller_id", "merchant_id">>

\* the first candidate that is present, whatever its value
RECURSIVE FirstPresentStr(_, _, _)
FirstPresentStr(record, fields, other) ==
    IF fields = <<>> THEN other
    ELSE IF fields[1] \in DOMAIN record THEN PyStr(record[fields[1]])
    ELSE FirstPresentStr(record, Tail(fields), other)

extract_vendor(record) == FirstPresentStr(record, vendor_fields, UNKNOWN)

\* ingested_at is the wall clock of the write; no operation reads it
NOW == Tag("now")

wrap_as_event(event_type, record) ==
    [event_id |-> make_event_id(event_type, extract_natural_key(event_type, record)),
     event_type |-> Tag(event_type),
     event_time |-> S(extract_event_time(event_type, record)),
     vendor |-> S(extract_vendor(record)),
     payload |-> record,
     ingested_at |-> NOW,
     source |-> Tag("historical_bootstrap")]

\* a loader ends: it has none of the locals of the reports and wrote no table
LoaderDone(name) ==
    /\ op' = name
    /\ saved' = NotRun
    /\ bq_jobs' = NotRun
    /\ raw' = NotRun
    /\ orders_df' = NotRun
    /\ payments_df' = NotRun
    /\ refunds_df' = NotRun
    /\ daily_df' = NotRun
    /\ report' = NotRun
    /\ err' = NoError

\* load_bootstrap_file(filepath, event_type), records being the file's content
\* the list ops that load_bootstrap_file builds from the records of a file
bootstrap_ops(event_type, records) ==
    [i \in 1..Len(records) |-> wrap_as_event(event_type, records[i])]

load_bootstrap_file(event_type, records) ==
    LET ops_ == bootstrap_ops(event_type, records)
    IN /\ ops_ # <<>>
       /\ \E st \in bulk_write(events_raw, ops_) :
            /\ WithinBounds(st)
            /\ events_raw' = st
       /\ LoaderDone("load_bootstrap_file")

\* the list ops that load_live_events builds from the parsed lines of the
\* day's file; a line that is no JSON object is the value None
live_ops(lines) ==
    LET valid == Mask(lines, [i \in 1..Len(lines) |-> "event_id" \in DOMAIN lines[i]])
    IN [i \in 1..Len(valid) |->
          ("ingested_at" :> NOW) @@ ("source" :> Tag("live_stream")) @@ valid[i]]

\* load_live_events(date_str), lines being the parsed lines of the day's file
load_live_events(lines) ==
    LET ops_ == live_ops(lines)
    IN /\ ops_ # <<>>
       /\ \E st \in bulk_write(events_raw, ops_) :
            /\ WithinBounds(st)
            /\ events_raw' = st
       /\ LoaderDone("load_live_events")

\* the locals and the files an outcome of run_transformation or of
\* run_quality_report leaves
Returns(out) ==
    /\ raw' = out.raw
    /\ orders_df' = out.orders_df
    /\ payments_df' = out.payments_df
    /\ refunds_df' = out.refunds_df
    /\ daily_df' = out.daily_df
    /\ report' = out.report
    /\ err' = out.err
    /\ saved' = out.saved
    /\ UNCHANGED events_raw

RunTransformation ==
    \E out \in run_transformation(events_raw) :
        /\ op' = "run_transformation"
        /\ bq_jobs' = NotRun
        /\ Returns(out)

RunQualityReport ==
    \E out \in run_quality_report(events_raw) :
        /\ op' = "run_quality_report"
        /\ bq_jobs' = NotRun
        /\ Returns(out)

\* run_pipeline(), rejected being the tables whose load job the warehouse rejects
RunPipeline(rejected) ==
    \E res \in run_pipeline(events_raw, rejected) :
        /\ op' = "run_pipeline"
        /\ bq_jobs' = res.jobs
        /\ Returns(res.out)

Init ==
    /\ events_raw = [orders |-> <<>>, payments |-> <<>>, refunds |-> <<>>, other |-> <<>>]
    /\ op = "none"
    /\ raw = NotRun
    /\ orders_df = NotRun
    /\ payments_df = NotRun
    /\ refunds_df = NotRun
    /\ daily_df = NotRun
    /\ report = NotRun
    /\ err = NoError
    /\ saved = NotRun
    /\ bq_jobs = NotRun

-----------------------------------------------------------------------------
(* Inputs.  Each specification feeds the loaders from its own finite set of  *)
(* file contents.                                                            *)

\* the files of one line (or record) each
OneLine(dom) == {<<x>> : x \in dom}

D1 == S(<<"2","0","2","4","-","0","1","-","0","1">>)
D1T10 == S(<<"2","0","2","4","-","0","1","-","0","1","T","1","0">>)
D2 == S(<<"2","0","2","4","-","0","1","-","0","2">>)
D9 == S(<<"2","0","2","4","-","0","1","-","0","9">>)
BadDate == S(<<"s","o","o","n">>)
VendorX == S(<<"v","e","n","d","o","r","X">>)
VendorY == S(<<"v","e","n","d","o","r","Y">>)
IdA == S(<<"A">>)
IdB == S(<<"B">>)
IdC == S(<<"C">>)
P1 == S(<<"P","1">>)
P2 == S(<<"P","2">>)
P3 == S(<<"P","3">>)
R1 == S(<<"R","1">>)
R2 == S(<<"R","2">>)

\* a line of a live file: the k-th event of the feed
LiveEvent(k, event_type, payload) ==
    [event_id |-> S(<<"e", "v">> \o NatStr(k)), event_type |-> Tag(event_type), payload |-> payload]

WithVendor(event, vendor) == ("vendor" :> vendor) @@ event

PipelineLines ==
    { WithVendor(LiveEvent(1, "order_created",
          [order_id |-> IdA, totalAmount |-> N(50), created_at |-> D1, customerId |-> S(<<"c","1">>)]), VendorX),
      WithVendor(LiveEvent(2, "order_created",
          [order_id |-> IdB, totalAmount |-> N(70), created_at |-> D1T10]), VendorX),
      WithVendor(LiveEvent(3, "order_updated", [order_id |-> IdA, totalAmount |-> N(55)]), VendorX),
      WithVendor(LiveEvent(4, "order_created",
          [order_id |-> IdB, totalAmount |-> N(70), created_at |-> D2]), VendorY),
      LiveEvent(5, "order_created", [order_id |-> IdA, totalAmount |-> N(50), created_at |-> D1]),
      WithVendor(LiveEvent(6, "payment_confirmed",
          [payment_id |-> P1, order_id |-> IdA, amount |-> N(10),
           status |-> S(<<"s","u","c","c","e","s","s">>), paid_at |-> D2]), VendorX),
      WithVendor(LiveEvent(7, "payment_attempt",
          [payment_id |-> P2, order_id |-> IdB, amount |-> N(20),
           status |-> S(<<"F","A","I","L","E","D">>), paid_at |-> D9]), VendorX),
      WithVendor(LiveEvent(8, "payment_attempt",
          [payment_id |-> P1, order_id |-> IdA, amount |-> N(10),
           status |-> S(<<"f","a","i","l">>), paid_at |-> D1T10]), VendorX),
      WithVendor(LiveEvent(9, "payment_confirmed",
          [payment_id |-> P3, orderId |-> IdC, amountPaid |-> N(5),
           status |-> S(<<"P","a","i","d">>), paid_at |-> D2]), VendorY),
      WithVendor(LiveEvent(9, "payment_confirmed",
          [payment_id |-> P3, orderId |-> IdC, amountPaid |-> N(7),
           status |-> S(<<"P","a","i","d">>), paid_at |-> D2]), VendorX) }

\* a file with a line that is no JSON and a line without event_id; a file
\* that carries the same event_id twice
PipelineLongFiles ==
    { <<None, [event_type |-> Tag("order_created"), payload |-> [order_id |-> IdA]],
        WithVendor(LiveEvent(2, "order_created",
          [order_id |-> IdB, totalAmount |-> N(70), created_at |-> D1T10]), VendorX)>>,
      <<WithVendor(LiveEvent(9, "payment_confirmed",
          [payment_id |-> P3, orderId |-> IdC, amountPaid |-> N(5),
           status |-> S(<<"P","a","i","d">>), paid_at |-> D2]), VendorY),
        WithVendor(LiveEvent(9, "payment_confirmed",
          [payment_id |-> P3, orderId |-> IdC, amountPaid |-> N(7),
           status |-> S(<<"P","a","i","d">>), paid_at |-> D2]), VendorX)>> }

PipelineRefunds ==
    { [refund_id |-> R1, order_id |-> IdA, payment_id |-> P1, amount |-> N(3), refund_date |-> D2],
      [refund_id |-> R2, order_id |-> IdB, payment_id |-> P3, refund_amount |-> N(4), vendor |-> VendorY] }

NextPipeline ==
    \/ \E lines \in OneLine(PipelineLines) \cup PipelineLongFiles : load_live_events(lines)
    \/ \E records \in OneLine(PipelineRefunds) : load_bootstrap_file("historical_refund", records)
    \/ RunTransformation
    \/ RunQualityReport

Spec == Init /\ [][NextPipeline]_vars

-----------------------------------------------------------------------------
(* Properties of the daily aggregate and of the reports (Spec) *)

Ran == op \in {"run_transformation", "run_quality_report"}
Rows(df) == {df.rows[i] : i \in 1..Len(df.rows)}

\* the sum of column col over the rows whose order_id is in ids
RECURSIVE TotalFor(_, _, _)
TotalFor(rows, col, ids) ==
    IF rows = <<>> THEN 0
    ELSE (IF rows[1].order_id \in ids THEN rows[1][col] ELSE 0) + TotalFor(Tail(rows), col, ids)

GroupIds(row) ==
    { o.order_id : o \in { x \in Rows(orders_df) :
                             x.order_date = row.order_date /\ x.vendor = row.vendor } }

\* the example of the specification: orders A and B of one date and vendor, a
\* success payment of 10 for A, a failed payment of 20 for B, a refund of 3 for A
ExampleTables ==
    /\ daily_df # NotRun
    /\ {<<o.order_id, o.order_date, o.vendor>> : o \in Rows(orders_df)}
         = {<<IdA, DateOf(to_datetime(D1)), VendorX>>, <<IdB, DateOf(to_datetime(D1)), VendorX>>}
    /\ {<<p.order_id, p.payment_amount, p.payment_status>> : p \in Rows(payments_df)}
         = {<<IdA, 10, SUCCESS>>, <<IdB, 20, S(<<"f","a","i","l","e","d">>)>>}
    /\ Len(payments_df.rows) = 2
    /\ {<<r.order_id, r.refund_amount>> : r \in Rows(refunds_df)} = {<<IdA, 3>>}
    /\ Len(refunds_df.rows) = 1

\* C6: every row of build_fact_order_daily has gross_revenue = the sum of
\* payment_amount over all payments of the group's orders whatever their
\* status, paid_count = the number of those with status "success",
\* total_refunds = the sum of refund_amount over the refunds of the group's
\* orders, net_revenue = gross_revenue - total_refunds; on the example tables
\* the row is gross 30, paid 1, refunds 3, net 27, orders 2.
C6_DailyRowSums ==
    (op = "run_transformation" /\ daily_df # NotRun) =>
        /\ \A row \in Rows(daily_df) :
             LET ids == GroupIds(row)
             IN /\ row.gross_revenue = TotalFor(payments_df.rows, "payment_amount", ids)
                /\ row.paid_count =
                     Cardinality({i \in 1..Len(payments_df.rows) :
                                    /\ payments_df.rows[i].order_id \in ids
                                    /\ payments_df.rows[i].payment_status = SUCCESS})
                /\ row.total_refunds = TotalFor(refunds_df.rows, "refund_amount", ids)
                /\ row.net_revenue = row.gross_revenue - row.total_refunds
        /\ ExampleTables =>
             /\ Len(daily_df.rows) = 1
             /\ daily_df.rows[1].gross_revenue = 30
             /\ daily_df.rows[1].paid_count = 1
             /\ daily_df.rows[1].total_refunds = 3
             /\ daily_df.rows[1].net_revenue = 27
             /\ daily_df.rows[1].order_count = 2

\* the example was aggregated, and its failed payment is in the gross revenue
C6_Witness ==
    /\ op = "run_transformation"
    /\ ExampleTables
    /\ Len(daily_df.rows) = 1
    /\ daily_df.rows[1].gross_revenue = 30
    /\ daily_df.rows[1].paid_count = 1

\* C7: every ratio metric is null when its denominator is zero: refund_rate
\* and payment_success_rate of the daily aggregate, and payment_success_rate
\* and refund_rate of the quality report.
C7_NullOnZeroDenominator ==
    /\ (op = "run_transformation" /\ daily_df # NotRun) =>
         \A row \in Rows(daily_df) :
            /\ row.gross_revenue = 0 => row.refund_rate = None
            /\ row.order_count = 0 => row.payment_success_rate = None
    /\ (op = "run_quality_report" /\ report # NotRun) =>
         /\ report.gross_revenue = 0 => report.refund_rate = None
         /\ report.total_payments = 0 => report.payment_success_rate = None

\* C8: a normalizer given no events returns an empty table with the columns
\* of its non-empty output, and no later stage fails on such a table.
C8_EmptyInputKeepsSchema ==
    op = "run_transformation" =>
        /\ (raw.orders = <<>> /\ orders_df # NotRun) => orders_df.columns = ORDER_COLUMNS
        /\ (raw.payments = <<>> /\ payments_df # NotRun) => payments_df.columns = PAYMENT_COLUMNS
        /\ (raw.refunds = <<>> /\ refunds_df # NotRun) => refunds_df.columns = REFUND_COLUMNS
        /\ (raw.orders = <<>> \/ raw.payments = <<>> \/ raw.refunds = <<>>) => err.exc # "KeyError"

-----------------------------------------------------------------------------
(* The order normalizer on malformed and duplicated order events (SpecOrders) *)

OrderLine(k, payload) == WithVendor(LiveEvent(k, "order_updated", payload), VendorX)

OrderLines ==
    { OrderLine(1, [order_id |-> IdA, totalAmount |-> N(10), created_at |-> D1]),
      OrderLine(2, [order_id |-> IdA, totalAmount |-> N(20), created_at |-> D2]),
      OrderLine(3, [order_id |-> IdA, totalAmount |-> N(30)]),
      OrderLine(4, [order_id |-> IdA, totalAmount |-> N(40), created_at |-> BadDate]),
      OrderLine(5, [order_id |-> IdB, totalAmount |-> N(-5), created_at |-> D1T10]),
      OrderLine(6, [order_id |-> IdB, totalAmount |-> S(<<"a","b","c">>), created_at |-> D1]),
      OrderLine(7, [order_id |-> IdB, totalAmount |-> None, created_at |-> D1]),
      OrderLine(8, [order_id |-> IdB]),
      OrderLine(9, [order_id |-> IdA, totalAmount |-> S(<<"7">>), created_at |-> D2]),
      OrderLine(10, [order_id |-> IdB, totalAmount |-> N(60), created_at |-> None]),
      [event_id |-> S(<<"e","v","1","1">>), event_type |-> Tag("order_created")] }

OrderRecords ==
    { [order_id |-> IdA, totalAmount |-> N(15), order_date |-> D1, vendor_id |-> VendorX],
      [id |-> IdB, order_id |-> IdB, totalAmount |-> N(25), created_at |-> D9] }

NextOrders ==
    \/ \E lines \in OneLine(OrderLines) : load_live_events(lines)
    \/ \E records \in OneLine(OrderRecords) : load_bootstrap_file("historical_order", records)
    \/ RunTransformation
    \/ RunQualityReport

SpecOrders == Init /\ [][NextOrders]_vars

RawOrderId(e) == Get(PayloadOf(e), "order_id")
RawCreatedAt(e) == to_datetime(Get(PayloadOf(e), "created_at"))

\* C1: normalize_orders returns exactly one row per distinct order_id; when
\* events of one order_id include dated ones, the surviving row comes from a
\* dated event whose created_at is the latest, whatever the input order, so a
\* null or unparsable created_at never beats a dated one.
C1_OneRowPerOrderLatestWins ==
    (Ran /\ orders_df # NotRun) =>
        LET ev == raw.orders
            rows == orders_df.rows
        IN /\ \A i \in 1..Len(ev) :
                Cardinality({j \in 1..Len(rows) : rows[j].order_id = RawOrderId(ev[i])}) = 1
           /\ \A j \in 1..Len(rows) :
                LET same == {i \in 1..Len(ev) : RawOrderId(ev[i]) = rows[j].order_id}
                    dated == {i \in same : RawCreatedAt(ev[i]).t = "ts"}
                IN /\ \E i \in same : ev[i].event_id = rows[j].event_id
                   /\ dated # {} =>
                        \E i \in dated :
                           /\ ev[i].event_id = rows[j].event_id
                           /\ rows[j].created_at = RawCreatedAt(ev[i])
                           /\ \A k \in dated : RawCreatedAt(ev[k]).v <= RawCreatedAt(ev[i]).v

\* the dated event of an order came first, its undated event second, and the
\* dated one is the row that survived
C1_Witness ==
    /\ Ran /\ orders_df # NotRun
    /\ Len(raw.orders) = 2
    /\ RawOrderId(raw.orders[1]) = RawOrderId(raw.orders[2])
    /\ RawCreatedAt(raw.orders[1]).t = "ts"
    /\ IsNull(RawCreatedAt(raw.orders[2]))
    /\ Len(orders_df.rows) = 1
    /\ orders_df.rows[1].event_id = raw.orders[1].event_id

NORMALIZERS == {"normalize_orders", "normalize_payments", "normalize_refunds"}

\* C9: whatever the raw events hold, each normalizer ends with a table and
\* never raises, and every event of the batch is normalized.
C9_NormalizersNeverRaise ==
    Ran =>
        /\ err.at \notin NORMALIZERS
        /\ orders_df # NotRun
        /\ \A i \in 1..Len(raw.orders) :
              \E j \in 1..Len(orders_df.rows) : orders_df.rows[j].order_id = RawOrderId(raw.orders[i])

\* C10: the amount column of every canonical row is a number >= 0.
C10_AmountsNonNegative ==
    Ran =>
        /\ orders_df # NotRun => \A r \in Rows(orders_df) : r.order_amount >= 0
        /\ payments_df # NotRun => \A r \in Rows(payments_df) : r.payment_amount >= 0
        /\ refunds_df # NotRun => \A r \in Rows(refunds_df) : r.refund_amount >= 0

-----------------------------------------------------------------------------
(* Payment and refund normalizers on duplicated ids and status spellings    *)
(* (SpecPayments)                                                           *)

PaymentLine(k, payload) == WithVendor(LiveEvent(k, "payment_attempt", payload), VendorX)
RefundLine(k, payload) == WithVendor(LiveEvent(k, "refund_created", payload), VendorX)

PaymentLines ==
    { PaymentLine(1, [payment_id |-> P1, order_id |-> IdA, amount |-> N(10),
                      status |-> S(<<"F","A","I","L","E","D">>), paid_at |-> D1]),
      PaymentLine(2, [payment_id |-> P1, order_id |-> IdA, amount |-> N(12),
                      status |-> S(<<"S","u","c","c","e","s","s">>), paid_at |-> D2]),
      PaymentLine(3, [transaction_id |-> P1, payment_id |-> P2, amount |-> N(20),
                      status |-> S(<<"f","a","i","l">>), payment_date |-> D9]),
      PaymentLine(4, [id |-> P2, amount |-> N(30), payment_status |-> S(<<"E","r","r","o","r">>),
                      status |-> S(<<"s","u","c","c","e","s","s">>)]),
      PaymentLine(5, [paymentId |-> P2, amount |-> N(5), state |-> S(<<"P","A","I","D">>)]),
      PaymentLine(6, [payment_id |-> P3, amount |-> N(5),
                      status |-> S(<<"C","o","m","p","l","e","t","e","d">>)]),
      PaymentLine(7, [payment_id |-> P3, status |-> S(<<"P","e","n","d","i","n","g">>)]),
      PaymentLine(8, [payment_id |-> P3, status |-> S(<<"S","U","C","C","E","S","S","F","U","L">>),
                      created_at |-> D1]),
      PaymentLine(9, [payment_id |-> P1, status |-> N(1)]),
      PaymentLine(10, [payment_id |-> P2, status |-> S(<<>>)]),
      PaymentLine(11, [amount |-> N(10)]),
      PaymentLine(12, [status |-> S(<<"R","e","f","u","n","d","e","d">>)]) }

RefundLines ==
    { RefundLine(21, [refund_id |-> R1, order_id |-> IdA, amount |-> N(3), refunded_at |-> D1]),
      RefundLine(22, [id |-> R1, order_id |-> IdA, amount |-> N(4), refunded_at |-> D9]) }

PaymentRecords ==
    { [payment_id |-> P1, amount |-> N(11), status |-> S(<<"p","a","i","d">>), payment_date |-> D2] }

NextPayments ==
    \/ \E lines \in OneLine(PaymentLines \cup RefundLines) : load_live_events(lines)
    \/ \E records \in OneLine(PaymentRecords) : load_bootstrap_file("historical_payment", records)
    \/ RunTransformation
    \/ RunQualityReport

SpecPayments == Init /\ [][NextPayments]_vars

RawPaymentId(e) == OrChain(PayloadOf(e), <<"transaction_id", "payment_id", "id", "paymentId">>)
RawRefundId(e) == OrChain(PayloadOf(e), <<"refund_id", "id", "transaction_id">>)
RawStatus(e) == OrChain(PayloadOf(e), <<"payment_status", "status", "state">>)

\* the first event of the input carrying the id, ids[i] being the id of events[i]
FirstWith(events, ids, id) ==
    events[CHOOSE i \in 1..Len(events) :
             /\ ids[i] = id
             /\ \A j \in 1..(i - 1) : ids[j] # id]

PaymentIds(events) == [i \in 1..Len(events) |-> RawPaymentId(events[i])]
RefundIds(events) == [i \in 1..Len(events) |-> RawRefundId(events[i])]

\* C2: normalize_payments (normalize_refunds) returns exactly one row per
\* distinct resolved payment_id (refund_id), built from the first event of the
\* input that carries the id; a later event, newer or not, never replaces it.
C2_FirstSeenWins ==
    /\ (Ran /\ payments_df # NotRun) =>
         /\ \A i \in 1..Len(raw.payments) :
              Cardinality({j \in 1..Len(payments_df.rows) :
                             payments_df.rows[j].payment_id = RawPaymentId(raw.payments[i])}) = 1
         /\ \A r \in Rows(payments_df) :
              /\ \E i \in 1..Len(raw.payments) : RawPaymentId(raw.payments[i]) = r.payment_id
              /\ r.event_id = FirstWith(raw.payments, PaymentIds(raw.payments), r.payment_id).event_id
    /\ (Ran /\ refunds_df # NotRun) =>
         /\ \A i \in 1..Len(raw.refunds) :
              Cardinality({j \in 1..Len(refunds_df.rows) :
                             refunds_df.rows[j].refund_id = RawRefundId(raw.refunds[i])}) = 1
         /\ \A r \in Rows(refunds_df) :
              /\ \E i \in 1..Len(raw.refunds) : RawRefundId(raw.refunds[i]) = r.refund_id
              /\ r.event_id = FirstWith(raw.refunds, RefundIds(raw.refunds), r.refund_id).event_id

\* two payment events carry one id, the second with the newer date, and the
\* row kept is the first one's
C2_Witness ==
    /\ Ran /\ payments_df # NotRun
    /\ Len(raw.payments) = 2
    /\ RawPaymentId(raw.payments[1]) = RawPaymentId(raw.payments[2])
    /\ Len(payments_df.rows) = 1
    /\ payments_df.rows[1].event_id = raw.payments[1].event_id
    /\ payments_df.rows[1].payment_date.t = "ts"
    /\ \E later \in {to_datetime(Get(PayloadOf(raw.payments[2]), "paid_at"))} :
          later.t = "ts" /\ later.v > payments_df.rows[1].payment_date.v

\* a and b are the same word but for the case of their letters
SameIgnoringCase(a, b) ==
    /\ Len(a) = Len(b)
    /\ \A i \in 1..Len(a) :
          \/ a[i] = b[i]
          \/ \E k \in 1..Len(UpperLetters) :
                {a[i], b[i]} = {UpperLetters[k], LowerLetters[k]}

EventOf(events, row) == CHOOSE e \in {events[i] : i \in 1..Len(events)} : e.event_id = row.event_id

\* C3: a payment status string is lower-cased and mapped: a case variant of
\* failed/fail/error gives "failed", one of success/successful/completed/paid
\* gives "success", any other string gives its lower-cased form; no
\* payment_status of an output row holds an upper-case letter.
C3_StatusCanonical ==
    (Ran /\ payments_df # NotRun) =>
        \A r \in Rows(payments_df) :
            LET st == RawStatus(EventOf(raw.payments, r))
            IN /\ r.payment_status.t = "str" => ~HasUpper(r.payment_status.s)
               /\ (st.t = "str" /\ st.s # <<>>) =>
                    /\ r.payment_status.t = "str"
                    /\ IF \E w \in FAILED_WORDS : SameIgnoringCase(st.s, w)
                       THEN r.payment_status.s = <<"f","a","i","l","e","d">>
                       ELSE IF \E w \in SUCCESS_WORDS : SameIgnoringCase(st.s, w)
                       THEN r.payment_status.s = <<"s","u","c","c","e","s","s">>
                       ELSE SameIgnoringCase(r.payment_status.s, st.s)

\* rows came from an upper-case failure word and from a mixed-case other word
C3_Witness ==
    /\ Ran /\ payments_df # NotRun
    /\ \E r \in Rows(payments_df) :
          /\ RawStatus(EventOf(raw.payments, r)) = S(<<"F","A","I","L","E","D">>)
          /\ r.payment_status = S(<<"f","a","i","l","e","d">>)
    /\ \E r \in Rows(payments_df) :
          /\ RawStatus(EventOf(raw.payments, r)) = S(<<"P","e","n","d","i","n","g">>)
          /\ r.payment_status = S(<<"p","e","n","d","i","n","g">>)

-----------------------------------------------------------------------------
(* Fallback chains and defaults, on bootstrap records and on live events    *)
(* with sparse payloads (SpecResolver)                                      *)

V1 == S(<<"v","1">>)
V2 == S(<<"v","2">>)
V3 == S(<<"v","3">>)
V4 == S(<<"v","4">>)

SparseRecords ==
    { [payment_id |-> P1, amountPaid |-> N(10), amount |-> N(20), payment_amount |-> N(30),
       totalAmount |-> N(40), vendor_id |-> V1, vendor |-> V2, payment_date |-> D1],
      [payment_id |-> P2, amountPaid |-> N(0), amount |-> N(20), payment_amount |-> N(30),
       vendor_id |-> S(<<>>), vendor |-> V2, timestamp |-> D2],
      [id |-> P3, amount |-> None, payment_amount |-> S(<<>>), totalAmount |-> N(40),
       vendor_id |-> None, seller_id |-> V3],
      [transaction_id |-> P1, payment_amount |-> N(30), merchant_id |-> V4, created_at |-> S(<<>>)],
      <<>>,
      [payment_id |-> P2, totalAmount |-> N(0), seller_id |-> V3, merchant_id |-> V4] }

SparseLines ==
    { [event_id |-> S(<<"e","v","1">>), event_type |-> Tag("order_created"), payload |-> <<>>],
      [event_id |-> S(<<"e","v","2">>), event_type |-> Tag("refund_created")],
      WithVendor(LiveEvent(3, "payment_confirmed", [status |-> S(<<"p","a","i","d">>)]), VendorX),
      WithVendor(LiveEvent(4, "order_created",
          [order_id |-> IdA, totalAmount |-> N(10), created_at |-> D1]), VendorX),
      WithVendor(LiveEvent(5, "refund_created",
          [refund_id |-> R1, payment_id |-> P1, order_id |-> IdA, amount |-> N(3)]), VendorX) }

NextResolver ==
    \/ \E lines \in OneLine(SparseLines) : load_live_events(lines)
    \/ \E records \in OneLine(SparseRecords) : load_bootstrap_file("historical_payment", records)
    \/ RunTransformation
    \/ RunQualityReport

SpecResolver == Init /\ [][NextResolver]_vars

StoredEvents == UNION { {events_raw[c][i] : i \in 1..Len(events_raw[c])} : c \in DOMAIN events_raw }
BootstrapEvents == {e \in StoredEvents : e.source = Tag("historical_bootstrap")}

NonEmpty(d, f) == f \in DOMAIN d /\ Truthy(d[f])
AllMissing(d, fields) == \A i \in 1..Len(fields) : fields[i] \notin DOMAIN d

\* the value of the first non-empty candidate, in the declared order; other
\* when every candidate is absent or empty
FirstNonEmpty(d, fields, other) ==
    IF \E i \in 1..Len(fields) : NonEmpty(d, fields[i])
    THEN d[fields[CHOOSE i \in 1..Len(fields) :
                    NonEmpty(d, fields[i]) /\ \A j \in 1..(i - 1) : ~NonEmpty(d, fields[j])]]
    ELSE other

AMOUNT_FIELDS == <<"amountPaid", "amount", "payment_amount", "totalAmount">>

\* C4: every fallback chain returns the first non-empty candidate in the
\* declared order: the payment amount over amountPaid, amount,
\* payment_amount, totalAmount, and the vendor of extract_vendor over
\* vendor_id, vendor, seller_id, merchant_id.
C4_FirstNonEmptyCandidate ==
    /\ (Ran /\ payments_df # NotRun) =>
         \A r \in Rows(payments_df) :
            N(r.payment_amount) = FirstNonEmpty(PayloadOf(EventOf(raw.payments, r)), AMOUNT_FIELDS, N(0))
    /\ \A e \in BootstrapEvents :
         e.vendor = S(PyStr(FirstNonEmpty(e.payload, vendor_fields, S(UNKNOWN))))

EpochTimestamp == Timestamp(2023010100)

ORDER_ID_FIELDS == <<"order_id", "orderId">>
PAYMENT_ID_FIELDS == <<"transaction_id", "payment_id", "id", "paymentId">>
PAYMENT_DATE_FIELDS == <<"paid_at", "payment_date", "created_at">>
REFUND_ID_FIELDS == <<"refund_id", "id", "transaction_id">>
REFUND_AMOUNT_FIELDS == <<"amountRefunded", "amount", "refund_amount", "totalAmount">>
REFUND_DATE_FIELDS == <<"refunded_at", "refund_date", "created_at">>

\* amounts and identifiers of the canonical rows, and the wrapper's
\* event_time and vendor, when every candidate field is missing
DefaultsOfAmountsAndIds ==
    /\ orders_df # NotRun =>
         \A r \in Rows(orders_df) :
            LET p == PayloadOf(EventOf(raw.orders, r))
            IN /\ "totalAmount" \notin DOMAIN p => r.order_amount = 0
               /\ "order_id" \notin DOMAIN p => r.order_id = None
               /\ "customerId" \notin DOMAIN p => r.customer_id = None
    /\ payments_df # NotRun =>
         \A r \in Rows(payments_df) :
            LET p == PayloadOf(EventOf(raw.payments, r))
            IN /\ AllMissing(p, AMOUNT_FIELDS) => r.payment_amount = 0
               /\ AllMissing(p, PAYMENT_ID_FIELDS) => r.payment_id = None
               /\ AllMissing(p, ORDER_ID_FIELDS) => r.order_id = None
    /\ refunds_df # NotRun =>
         \A r \in Rows(refunds_df) :
            LET p == PayloadOf(EventOf(raw.refunds, r))
            IN /\ AllMissing(p, REFUND_AMOUNT_FIELDS) => r.refund_amount = 0
               /\ AllMissing(p, REFUND_ID_FIELDS) => r.refund_id = None
               /\ AllMissing(p, ORDER_ID_FIELDS) => r.order_id = None

WrapperDefaults ==
    \A e \in BootstrapEvents :
        /\ AllMissing(e.payload, vendor_fields) => e.vendor = S(UNKNOWN)
        /\ AllMissing(e.payload, time_fields) => e.event_time = S(EPOCH)

\* the date and the vendor of a canonical row whose event carries none are
\* among the given defaults
RowDateAndVendor(dateDefaults, vendorDefaults) ==
    /\ orders_df # NotRun =>
         \A r \in Rows(orders_df) :
            LET e == EventOf(raw.orders, r)
            IN /\ "created_at" \notin DOMAIN PayloadOf(e) => r.created_at \in dateDefaults
               /\ "vendor" \notin DOMAIN e => r.vendor \in vendorDefaults
    /\ payments_df # NotRun =>
         \A r \in Rows(payments_df) :
            LET e == EventOf(raw.payments, r)
            IN /\ AllMissing(PayloadOf(e), PAYMENT_DATE_FIELDS) => r.payment_date \in dateDefaults
               /\ "vendor" \notin DOMAIN e => r.vendor \in vendorDefaults
    /\ refunds_df # NotRun =>
         \A r \in Rows(refunds_df) :
            LET e == EventOf(raw.refunds, r)
            IN /\ AllMissing(PayloadOf(e), REFUND_DATE_FIELDS) => r.refund_date \in dateDefaults
               /\ "vendor" \notin DOMAIN e => r.vendor \in vendorDefaults

-----------------------------------------------------------------------------
(* The event store under repeated and colliding ingestions (SpecStore)      *)

\* the event_id the bootstrap loader gives the refund record of key R1
RefundR1Id == make_event_id("historical_refund", R1.s)

\* live lines: ev1 three times over (with a vendor, without one and with
\* another amount, under a payment type), ev2, and the replay of a stored
\* bootstrap refund under its event_id
StoreLines ==
    { WithVendor(LiveEvent(1, "order_created", [order_id |-> IdA, totalAmount |-> N(10)]), VendorX),
      LiveEvent(1, "order_created", [order_id |-> IdA, totalAmount |-> N(20)]),
      LiveEvent(1, "payment_attempt", [payment_id |-> P1, order_id |-> IdA, amount |-> N(10)]),
      WithVendor(LiveEvent(2, "payment_confirmed",
          [payment_id |-> P2, order_id |-> IdB, amount |-> N(20)]), VendorY),
      [event_id |-> RefundR1Id, event_type |-> Tag("refund_processed"),
       payload |-> [refund_id |-> R1, amount |-> N(5)]] }

\* a file that carries ev1 twice, with different payloads
StoreLongFiles ==
    { << WithVendor(LiveEvent(1, "order_created", [order_id |-> IdA, totalAmount |-> N(10)]), VendorX),
         LiveEvent(1, "order_created", [order_id |-> IdA, totalAmount |-> N(20)]) >> }

\* bootstrap records: the key R1 twice over, under refund_id and under id
StoreRecords ==
    { [refund_id |-> R1, order_id |-> IdA, amount |-> N(3), refund_date |-> D2, vendor_id |-> VendorX],
      [id |-> R1, order_id |-> IdA, amount |-> N(4)],
      [refund_id |-> R2, order_id |-> IdB, amount |-> N(4)] }

BOOTSTRAP_TYPES == {"historical_refund", "historical_payment"}

NextStore ==
    \/ \E lines \in OneLine(StoreLines) \cup StoreLongFiles : load_live_events(lines)
    \/ \E ty \in BOOTSTRAP_TYPES, records \in OneLine(StoreRecords) : load_bootstrap_file(ty, records)

SpecStore == Init /\ [][NextStore]_vars

\* the operation lists the loaders of SpecStore send to bulk_write
StoreOps ==
    { live_ops(lines) : lines \in OneLine(StoreLines) \cup StoreLongFiles }
      \cup { bootstrap_ops(ty, records) : ty \in BOOTSTRAP_TYPES, records \in OneLine(StoreRecords) }

Documents(store) == UNION { {store[c][i] : i \in 1..Len(store[c])} : c \in DOMAIN store }
EventIds(store) == { d.event_id : d \in Documents(store) }
CountDocuments(store) == Len(store.orders) + Len(store.payments) + Len(store.refunds) + Len(store.other)
IdsOf(ops_) == { ops_[i].event_id : i \in 1..Len(ops_) }
Payloads(store) == { <<d.event_id, d.payload>> : d \in Documents(store) }

\* this step is a loader sending ops_ to the store
Ingests(ops_) ==
    /\ op' \in {"load_live_events", "load_bootstrap_file"}
    /\ events_raw' \in bulk_write(events_raw, ops_)

\* C11: every ingestion leaves one document per event_id and as many
\* documents as distinct event_ids were ever ingested (the ids of the store
\* are those it had and those of the file, none twice); two records of one
\* event_type and natural key get one event_id; and ingesting the same file
\* again leaves the event_ids and their payloads as they are.
C11_OneDocumentPerEventId ==
    [][ \A ops_ \in StoreOps : Ingests(ops_) =>
          /\ EventIds(events_raw') = EventIds(events_raw) \cup IdsOf(ops_)
          /\ CountDocuments(events_raw') = Cardinality(EventIds(events_raw'))
          /\ \A ty \in BOOTSTRAP_TYPES, r1, r2 \in StoreRecords :
                extract_natural_key(ty, r1) = extract_natural_key(ty, r2)
                   => wrap_as_event(ty, r1).event_id = wrap_as_event(ty, r2).event_id
          /\ \A again \in bulk_write(events_raw', ops_) :
                /\ EventIds(again) = EventIds(events_raw')
                /\ Payloads(again) = Payloads(events_raw') ]_vars

\* C12: after an ingestion the store holds, for every event_id of the file,
\* one document, and it is exactly an event document the file carries for
\* that id (the one written last): no field of an earlier write is left in it.
C12_LastWriteIsTheDocument ==
    [][ \A ops_ \in StoreOps : Ingests(ops_) =>
          \A id \in IdsOf(ops_) :
             /\ Cardinality({ d \in Documents(events_raw') : d.event_id = id }) = 1
             /\ \A d \in Documents(events_raw') :
                   d.event_id = id => \E i \in 1..Len(ops_) : d = ops_[i] ]_vars

-----------------------------------------------------------------------------
(* Re-running the transformation over the unchanged store (Spec)            *)

\* the store holding the same documents, returned in another order
Reorderings(store) ==
    { [c \in DOMAIN store |-> Take(store[c], p[c])] :
        p \in { q \in [DOMAIN store -> UNION { IndexPermutations(n) : n \in 0..MaxEvents }] :
                  \A c \in DOMAIN store : DOMAIN q[c] = 1..Len(store[c]) } }

\* the content of a table whatever the order of its rows
RowSet(df) == IF df = NotRun THEN {} ELSE Rows(df)

\* C13: when run_transformation has returned, running it again over the
\* unchanged store gives the same row sets of Orders, Payments, Refunds and
\* DailyAggregate, in whatever order the store returns its events.
C13_RerunGivesSameRowSets ==
    (op = "run_transformation" /\ err.exc = "none") =>
        \A store \in Reorderings(events_raw) :
            \A out \in run_transformation(store) :
                /\ out.err.exc = "none"
                /\ RowSet(out.orders_df) = RowSet(orders_df)
                /\ RowSet(out.payments_df) = RowSet(payments_df)
                /\ RowSet(out.refunds_df) = RowSet(refunds_df)
                /\ RowSet(out.daily_df) = RowSet(daily_df)

-----------------------------------------------------------------------------
(* Orphan payments of the quality report (Spec)                             *)

RawPaymentOrderId(e) == OrChain(PayloadOf(e), <<"order_id", "orderId">>)

\* the payment_ids of the raw payment events whose first event names an
\* order that the Orders table does not hold
OrphanPaymentIds ==
    { pid \in { RawPaymentId(raw.payments[i]) : i \in 1..Len(raw.payments) } :
        RawPaymentOrderId(FirstWith(raw.payments, PaymentIds(raw.payments), pid))
            \notin { o.order_id : o \in Rows(orders_df) } }

\* C14: orphan_payments of the quality report is the number of Payment rows
\* whose order_id is not an order_id of the Orders table: every such payment
\* counts once, no payment of a known order counts, and several raw events of
\* one payment_id count as the one payment they are.
C14_OrphanPaymentsCountedOnce ==
    (op = "run_quality_report" /\ report # NotRun) =>
        /\ report.orphan_payments =
              Cardinality({ i \in 1..Len(payments_df.rows) :
                              \A o \in Rows(orders_df) : o.order_id # payments_df.rows[i].order_id })
        /\ report.orphan_payments = Cardinality(OrphanPaymentIds)

\* the report counted one orphan where two raw events carry the one payment
\* of an order that is not in Orders
C14_Witness ==
    /\ op = "run_quality_report" /\ report # NotRun
    /\ Len(raw.payments) = 2
    /\ RawPaymentId(raw.payments[1]) = RawPaymentId(raw.payments[2])
    /\ \A o \in Rows(orders_df) : o.order_id # RawPaymentOrderId(raw.payments[1])
    /\ report.orphan_payments = 1

-----------------------------------------------------------------------------
(* The warehouse load (SpecWarehouse)                                       *)

WarehouseLines ==
    { WithVendor(LiveEvent(1, "order_created",
          [order_id |-> IdA, totalAmount |-> N(50), created_at |-> D1, customerId |-> S(<<"c","1">>)]), VendorX),
      WithVendor(LiveEvent(2, "order_created",
          [order_id |-> IdB, totalAmount |-> N(70), created_at |-> D1T10]), VendorX),
      LiveEvent(5, "order_created", [order_id |-> IdA, totalAmount |-> N(50), created_at |-> D1]),
      WithVendor(LiveEvent(6, "payment_confirmed",
          [payment_id |-> P1, order_id |-> IdA, amount |-> N(10),
           status |-> S(<<"s","u","c","c","e","s","s">>), paid_at |-> D2]), VendorX),
      WithVendor(LiveEvent(7, "payment_attempt",
          [payment_id |-> P2, order_id |-> IdB, amount |-> N(20),
           status |-> S(<<"F","A","I","L","E","D">>), paid_at |-> D9]), VendorX) }

NextWarehouse ==
    \/ \E lines \in OneLine(WarehouseLines) : load_live_events(lines)
    \/ \E records \in OneLine(PipelineRefunds) : load_bootstrap_file("historical_refund", records)
    \/ \E rejected \in SUBSET {BQ_TABLES[i] : i \in 1..Len(BQ_TABLES)} : RunPipeline(rejected)

SpecWarehouse == Init /\ [][NextWarehouse]_vars

\* C15: when run_pipeline has come to its loads, a load that fails leaves the
\* other tables' loads attempted and the run complete: every table has its
\* load job, and no exception ends the run.
C15_TableFailureIsIsolated ==
    (op = "run_pipeline" /\ bq_jobs # <<>>) =>
        /\ \A i \in 1..Len(BQ_TABLES) : \E j \in 1..Len(bq_jobs) : bq_jobs[j].table = BQ_TABLES[i]
        /\ err.exc = "none"

-----------------------------------------------------------------------------
(* What the aggregator does to its inputs, and which orders it counts (Spec) *)

\* C16: build_fact_order_daily leaves its inputs as they were: when
\* run_transformation has returned, the Orders table it returns and the one
\* it wrote to the sink is a table normalize_orders returned, of the same
\* columns and rows, and Payments and Refunds are the tables their
\* normalizers returned.
C16_AggregatorLeavesInputsUnchanged ==
    (op = "run_transformation" /\ err.exc = "none") =>
        /\ \E no \in normalize_orders(raw.orders) : orders_df = no.df
        /\ payments_df = normalize_payments(raw.payments).df
        /\ refunds_df = normalize_refunds(raw.refunds).df
        /\ saved.fact_orders.columns = ORDER_COLUMNS
        /\ \E no \in normalize_orders(raw.orders) : saved.fact_orders = no.df

\* the aggregate rows whose group holds the order_id
RowsCounting(order_id) == { i \in 1..Len(daily_df.rows) : order_id \in GroupIds(daily_df.rows[i]) }

\* C17: over a non-empty Orders table the order_count of the aggregate rows
\* sum to the number of orders, those of null created_at or null vendor
\* included, and a payment or refund is summed into one aggregate row at most.
C17_EveryOrderCountedOnce ==
    (op = "run_transformation" /\ daily_df # NotRun /\ orders_df.rows # <<>>) =>
        /\ SumCol(daily_df.rows, "order_count") = Len(orders_df.rows)
        /\ \A p \in Rows(payments_df) : Cardinality(RowsCounting(p.order_id)) <= 1
        /\ \A r \in Rows(refunds_df) : Cardinality(RowsCounting(r.order_id)) <= 1

=============================================================================
